---- MODULE Spec2Model ----
(***************************************************************************)
(* gluon-census-exporter: the version classifier (get_base_version), the   *)
(* format detector (load), the node extractors, the deduplicator          *)
(* (already_seen) and the thread-pool pipeline of main.                    *)
(*                                                                         *)
(* Strings that the code inspects with regular expressions are sequences   *)
(* of one-character strings.  JSON values are tagged records.              *)
(***************************************************************************)
EXTENDS Integers, Sequences, FiniteSets, TLC

VARIABLES
    cls_in,      \* get_base_version: the argument `pattern` (optional string)
    cls_out,     \* get_base_version: the returned tuple, or NoResult
    worklist,    \* main: fetchlist, a sequence of (community, payload) items
    nextTask,    \* ThreadPool: index of the next fetchlist item to hand out
    task,        \* per fetchlist item: the worker's position in named_load
    seen,        \* module global `seen`
    duplicates,  \* module global `duplicates`
    results,     \* imap_unordered: finished results not yet consumed by main
    gauges,      \* the registry's samples, per community
    totals,      \* module globals total_*_sum
    consumed,    \* main: number of results taken from imap_unordered
    mainpc,      \* main: "consume" in the result loop, "written" after it
    claims,      \* history: per (community, node_id), the number of
                 \* already_seen calls that returned False
    inc_calls,   \* history: per metric and label set, the number of
                 \* .inc() calls the registry received
    outfile,     \* the snapshots write_to_textfile has written to outfile
    exit_code,   \* <<>> while main runs, then <<the process's exit code>>
    runs         \* number of invocations of main in this process so far

vars ==
    <<cls_in, cls_out, worklist, nextTask, task, seen, duplicates,
      results, gauges, totals, consumed, mainpc, claims,
      inc_calls, outfile, exit_code, runs>>

-----------------------------------------------------------------------------
(* Strings                                                                 *)

NL == "\n"

Digits == {"0", "1", "2", "3", "4", "5", "6", "7", "8", "9"}
HexDigits == Digits \cup {"a", "b", "c", "d", "e", "f"}

S_gluon     == <<"g", "l", "u", "o", "n", "-">>
S_gluonv    == <<"g", "l", "u", "o", "n", "-", "v">>
S_unknown   == <<"g", "l", "u", "o", "n", "-", "u", "n", "k", "n", "o", "w", "n">>
S_undefined == <<"u", "n", "d", "e", "f", "i", "n", "e", "d">>

StartsWith(s, p) == Len(s) >= Len(p) /\ SubSeq(s, 1, Len(p)) = p

Prefix(s, n) == SubSeq(s, 1, n)

\* text matched by a greedy `.*` at the start of s: `.` excludes the newline
LineLen(s) ==
    IF \E i \in 1..Len(s) : s[i] = NL
    THEN (CHOOSE i \in 1..Len(s) : s[i] = NL /\ \A j \in 1..(i-1) : s[j] # NL) - 1
    ELSE Len(s)

\* length of the run of decimal digits of s that starts at position i
DigitRun(s, i) ==
    IF i > Len(s) \/ s[i] \notin Digits THEN 0
    ELSE (CHOOSE k \in 1..(Len(s) - i + 1) :
             /\ \A j \in i..(i + k - 1) : s[j] \in Digits
             /\ (i + k > Len(s) \/ s[i + k] \notin Digits))

\* `$` without re.MULTILINE: at the end of the string, or just before a
\* newline that is the last character
AtDollar(s, n) == n = Len(s) \/ (n = Len(s) - 1 /\ s[Len(s)] = NL)

\* length matched by  ^gluon-v\d{4}\.\d(?:\.\d)?  (0: no match)
BaseLen(s) ==
    IF /\ Len(s) >= 13
       /\ StartsWith(s, S_gluonv)
       /\ \A i \in 8..11 : s[i] \in Digits
       /\ s[12] = "."
       /\ s[13] \in Digits
    THEN IF Len(s) >= 15 /\ s[14] = "." /\ s[15] \in Digits THEN 15 ELSE 13
    ELSE 0

\* length matched by  ^gluon-v\d{4}\.\d(?:\.\d)?(?:-\d+)?  (0: no match)
VersionLen(s) ==
    LET b == BaseLen(s) IN
    IF b = 0 THEN 0
    ELSE IF Len(s) >= b + 2 /\ s[b + 1] = "-" /\ s[b + 2] \in Digits
         THEN b + 1 + DigitRun(s, b + 2)
         ELSE b

\* length matched by  ^gluon-[0-9a-f]{7,}  with the greedy quantifier
\* followed by `$` (0: no match)
CommitLen(s) ==
    IF ~StartsWith(s, S_gluon) THEN 0
    ELSE LET ends == {n \in 13..Len(s) :
                        /\ \A i \in 7..n : s[i] \in HexDigits
                        /\ AtDollar(s, n)}
         IN IF ends = {} THEN 0 ELSE CHOOSE n \in ends : \A m \in ends : m <= n

-----------------------------------------------------------------------------
(* Version classifier                                                      *)

\* PATTERNS, in list order; each entry is named by its vtype
PATTERNS ==
    <<"gluon-base", "gluon-unknown", "gluon-commitid", "gluon-custom",
      "undefined", "foreign">>

\* pidx["version"].match(s): length of the group `version`, -1 for no match
VersionGroupLen(vt, s) ==
    CASE vt = "gluon-base"     -> IF VersionLen(s) = 0 THEN -1 ELSE VersionLen(s)
      [] vt = "gluon-unknown"  -> IF StartsWith(s, S_unknown) /\ AtDollar(s, 13)
                                  THEN 13 ELSE -1
      [] vt = "gluon-commitid" -> IF CommitLen(s) = 0 THEN -1 ELSE CommitLen(s)
      [] vt = "gluon-custom"   -> IF StartsWith(s, S_gluon) THEN LineLen(s) ELSE -1
      [] vt = "undefined"      -> IF AtDollar(s, 0) THEN 0 ELSE -1
      [] vt = "foreign"        -> LineLen(s)

\* pidx["base"].match(s): length of the group `base`, -1 for no match
BaseGroupLen(vt, s) ==
    CASE vt = "gluon-base"     -> IF BaseLen(s) = 0 THEN -1 ELSE BaseLen(s)
      [] vt = "gluon-unknown"  -> IF StartsWith(s, S_unknown) /\ AtDollar(s, 13)
                                  THEN 13 ELSE -1
      [] vt = "gluon-commitid" -> IF CommitLen(s) = 0 THEN -1 ELSE CommitLen(s)
      [] vt = "gluon-custom"   -> IF StartsWith(s, S_gluon) THEN LineLen(s) ELSE -1
      [] vt = "undefined"      -> IF AtDollar(s, 0) THEN 0 ELSE -1
      [] vt = "foreign"        -> LineLen(s)

\* an optional string: None, or a str
None == [present |-> FALSE, s |-> <<>>]
Some(s) == [present |-> TRUE, s |-> s]

Undefined3 ==
    [version |-> S_undefined, vbase |-> S_undefined, vtype |-> "undefined",
     raised |-> FALSE]

ValueError3 ==
    [version |-> <<>>, vbase |-> <<>>, vtype |-> "ValueError", raised |-> TRUE]

get_base_version(pattern) ==
    IF ~pattern.present THEN Undefined3
    ELSE LET s == pattern.s
             hits == {i \in 1..Len(PATTERNS) : VersionGroupLen(PATTERNS[i], s) >= 0}
         IN IF hits = {} THEN Undefined3
            ELSE LET i == CHOOSE h \in hits : \A k \in hits : h <= k
                     vt == PATTERNS[i]
                 IN IF vt = "undefined" THEN Undefined3
                    ELSE IF BaseGroupLen(vt, s) < 0 THEN ValueError3
                    ELSE [version |-> Prefix(s, VersionGroupLen(vt, s)),
                          vbase   |-> Prefix(s, BaseGroupLen(vt, s)),
                          vtype   |-> vt,
                          raised  |-> FALSE]

\* the alien sub-aggregate takes these vtypes (parse_generic)
AlienVtypes == {"undefined", "foreign"}

-----------------------------------------------------------------------------
(* Inputs of the classifier: concatenations of at most MaxFrags fragments  *)

MaxFrags == 3

Fragments ==
    { S_gluon,
      <<"g", "l", "u", "o", "n", "-", "v", "2", "0", "2", "4", ".", "1">>,
      <<".", "2">>,
      <<"-", "7">>,
      <<"u", "n", "k", "n", "o", "w", "n">>,
      <<"a", "b", "c", "d", "e", "f", "0">>,
      <<"x">>,
      <<"9">>,
      <<NL>> }

RECURSIVE Concats(_)
Concats(n) ==
    IF n = 0 THEN {<<>>}
    ELSE LET shorter == Concats(n - 1)
         IN shorter \cup {a \o f : a \in shorter, f \in Fragments}

FirmwareInputs == {None} \cup {Some(s) : s \in Concats(MaxFrags)}

NoResult ==
    [version |-> <<>>, vbase |-> <<>>, vtype |-> "pending", raised |-> FALSE]

-----------------------------------------------------------------------------
(* JSON values, as response.json() returns them                            *)

NoMap == [k \in {} |-> 0]

JStr(s)      == [t |-> "str",  s |-> s,    n |-> 0, m |-> NoMap, items |-> <<>>]
JNum(n)      == [t |-> "num",  s |-> <<>>, n |-> n, m |-> NoMap, items |-> <<>>]
JNull        == [t |-> "null", s |-> <<>>, n |-> 0, m |-> NoMap, items |-> <<>>]
JList(items) == [t |-> "list", s |-> <<>>, n |-> 0, m |-> NoMap, items |-> items]
\* a dict: m maps its keys to values, items lists its keys in insertion order
JDict(ks, m) == [t |-> "dict", s |-> <<>>, n |-> 0, m |-> m,     items |-> ks]

\* operator.getitem(obj, key) for a str key
getitem(obj, key) ==
    IF obj.t = "dict"
    THEN IF key \in DOMAIN obj.m
         THEN [exc |-> "none", v |-> obj.m[key]]
         ELSE [exc |-> "KeyError", v |-> JNull]
    ELSE [exc |-> "TypeError", v |-> JNull]

\* reduce(operator.getitem, keys, node)
RECURSIVE reduce_getitem(_, _)
reduce_getitem(keys, obj) ==
    IF keys = <<>> THEN [exc |-> "none", v |-> obj]
    ELSE LET r == getitem(obj, Head(keys))
         IN IF r.exc # "none" THEN r ELSE reduce_getitem(Tail(keys), r.v)

NoPath == [present |-> FALSE, path |-> <<>>]
Path(p) == [present |-> TRUE, path |-> p]

\* get_node_item: [exc, val]; only KeyError is caught
get_node_item(node, keys) ==
    IF ~keys.present THEN [exc |-> "none", val |-> None]
    ELSE LET r == reduce_getitem(keys.path, node)
         IN IF r.exc = "KeyError" THEN [exc |-> "none", val |-> None]
            ELSE IF r.exc # "none" THEN [exc |-> r.exc, val |-> None]
            ELSE IF r.v.t = "str" THEN [exc |-> "none", val |-> Some(r.v.s)]
            ELSE [exc |-> "none", val |-> None]

Whitespace == {" ", "\t", NL}

RECURSIVE SkipWhitespace(_)
SkipWhitespace(s) ==
    IF s # <<>> /\ Head(s) \in Whitespace THEN SkipWhitespace(Tail(s)) ELSE s

\* re.sub(r"\s+", " ", name)
RECURSIVE normalize_model_name(_)
normalize_model_name(name) ==
    IF name = <<>> THEN <<>>
    ELSE IF Head(name) \in Whitespace
         THEN <<" ">> \o normalize_model_name(SkipWhitespace(name))
         ELSE <<Head(name)>> \o normalize_model_name(Tail(name))

-----------------------------------------------------------------------------
(* ParseResult: defaultdict(int) counters are functions key -> count       *)

EmptyCounter == <<>>

Inc(counter, key, amount) ==
    IF key \in DOMAIN counter
    THEN [counter EXCEPT ![key] = @ + amount]
    ELSE counter @@ (key :> amount)

RECURSIVE SumOver(_, _)
SumOver(counter, keys) ==
    IF keys = {} THEN 0
    ELSE LET k == CHOOSE x \in keys : TRUE
         IN counter[k] + SumOver(counter, keys \ {k})

Total(counter) == SumOver(counter, DOMAIN counter)

ParsePartResult ==
    [bases |-> EmptyCounter, models |-> EmptyCounter,
     domains |-> EmptyCounter, source_type |-> EmptyCounter]

ParseResult == [gluon |-> ParsePartResult, alien |-> ParsePartResult]

Dimensions == {"bases", "models", "domains", "source_type"}

\* the four increments of one branch of parse_generic
CountNode(part, version, vbase, vtype, model, site, domain, source_type) ==
    [bases       |-> Inc(part.bases, <<version, vbase, vtype>>, 1),
     models      |-> Inc(part.models, model, 1),
     domains     |-> Inc(part.domains, <<site, domain>>, 1),
     source_type |-> Inc(part.source_type, source_type, 1)]

\* parse_generic after already_seen returned False: [exc, result]
parse_generic_count(node, keys, source_type, result) ==
    LET base   == get_node_item(node, keys.base)
        bv     == get_base_version(base.val)
        model  == get_node_item(node, keys.model)
        domain == get_node_item(node, keys.domain)
        site   == get_node_item(node, keys.site)
        modelS  == IF model.val.present THEN normalize_model_name(model.val.s) ELSE <<>>
        domainS == IF domain.val.present THEN domain.val.s ELSE <<>>
        siteS   == IF site.val.present THEN site.val.s ELSE <<>>
    IN IF base.exc # "none" THEN [exc |-> base.exc, result |-> result]
       ELSE IF bv.raised THEN [exc |-> "ValueError", result |-> result]
       ELSE IF model.exc # "none" THEN [exc |-> model.exc, result |-> result]
       ELSE IF domain.exc # "none" THEN [exc |-> domain.exc, result |-> result]
       ELSE IF site.exc # "none" THEN [exc |-> site.exc, result |-> result]
       ELSE IF bv.vtype \in AlienVtypes
            THEN [exc |-> "none",
                  result |-> [result EXCEPT !.alien =
                      CountNode(@, bv.version, bv.vbase, bv.vtype,
                                modelS, siteS, domainS, source_type)]]
            ELSE [exc |-> "none",
                  result |-> [result EXCEPT !.gluon =
                      CountNode(@, bv.version, bv.vbase, bv.vtype,
                                modelS, siteS, domainS, source_type)]]

-----------------------------------------------------------------------------
(* Format registry: voluptuous schemas (keys optional, extra keys refused) *)

IsStr(v) == v.t = "str"
IsDict(v) == v.t = "dict"
IsListOfDict(v) == v.t = "list" /\ \A i \in 1..Len(v.items) : IsDict(v.items[i])
IsLiteral(v, n) == v.t = "num" /\ v.n = n

Has(data, key) == key \in DOMAIN data.m

\* Schema({...})(data) for a mapping schema whose keys are `allowed`
DictSchema(data, allowed) == IsDict(data) /\ DOMAIN data.m \subseteq allowed

SCHEMA_MESHVIEWER(data) ==
    /\ DictSchema(data, {"timestamp", "nodes", "links"})
    /\ Has(data, "timestamp") => IsStr(data.m["timestamp"])
    /\ Has(data, "nodes") => IsListOfDict(data.m["nodes"])
    /\ Has(data, "links") => IsListOfDict(data.m["links"])

SCHEMA_MESHVIEWER_OLD(data) ==
    /\ DictSchema(data, {"meta", "nodes", "links"})
    /\ Has(data, "meta") =>
          /\ DictSchema(data.m["meta"], {"timestamp"})
          /\ Has(data.m["meta"], "timestamp") => IsStr(data.m["meta"].m["timestamp"])
    /\ Has(data, "nodes") => IsListOfDict(data.m["nodes"])
    /\ Has(data, "links") => IsListOfDict(data.m["links"])

SCHEMA_NODESJSONV1(data) ==
    /\ DictSchema(data, {"timestamp", "version", "nodes"})
    /\ Has(data, "timestamp") => IsStr(data.m["timestamp"])
    /\ Has(data, "version") => IsLiteral(data.m["version"], 1)
    /\ Has(data, "nodes") => IsDict(data.m["nodes"])

SCHEMA_NODESJSONV2(data) ==
    /\ DictSchema(data, {"timestamp", "version", "nodes"})
    /\ Has(data, "timestamp") => IsStr(data.m["timestamp"])
    /\ Has(data, "version") => IsLiteral(data.m["version"], 2)
    /\ Has(data, "nodes") => IsListOfDict(data.m["nodes"])

\* FORMATS, in registration (dict insertion) order
FORMATS_v2_first ==
    <<"nodes.json v2", "nodes.json v1", "meshviewer (old)", "meshviewer">>

FORMATS == <<"meshviewer", "meshviewer (old)", "nodes.json v1", "nodes.json v2">>

SchemaAccepts(name, data) ==
    CASE name = "meshviewer"       -> SCHEMA_MESHVIEWER(data)
      [] name = "meshviewer (old)" -> SCHEMA_MESHVIEWER_OLD(data)
      [] name = "nodes.json v1"    -> SCHEMA_NODESJSONV1(data)
      [] name = "nodes.json v2"    -> SCHEMA_NODESJSONV2(data)

\* the loop of load: the first format whose schema accepts, "" for none
DetectFormat(data) ==
    LET hits == {i \in 1..Len(FORMATS) : SchemaAccepts(FORMATS[i], data)}
    IN IF hits = {} THEN ""
       ELSE FORMATS[CHOOSE h \in hits : \A k \in hits : h <= k]

KEYS_MESHVIEWER ==
    [base |-> Path(<<"firmware", "base">>), model |-> Path(<<"model">>),
     domain |-> Path(<<"domain">>), site |-> NoPath]

KEYS_NODESJSONV1 ==
    [base |-> Path(<<"nodeinfo", "software", "firmware", "base">>),
     model |-> NoPath, domain |-> NoPath, site |-> NoPath]

KEYS_NODESJSONV2 ==
    [base |-> Path(<<"nodeinfo", "software", "firmware", "base">>),
     model |-> Path(<<"nodeinfo", "hardware", "model">>),
     domain |-> Path(<<"nodeinfo", "system", "domain_code">>),
     site |-> Path(<<"nodeinfo", "system", "site_code">>)]

KeysOf(name) ==
    CASE name = "nodes.json v1" -> KEYS_NODESJSONV1
      [] name = "nodes.json v2" -> KEYS_NODESJSONV2
      [] OTHER                  -> KEYS_MESHVIEWER

\* number of iterations of the parser's loop over data["nodes"]
NodeCount(data) == Len(data.m["nodes"].items)

\* iteration k of the parser's loop: the node and the outcome of reading its id
NodeAt(name, data, k) ==
    LET nodes == data.m["nodes"] IN
    CASE name = "nodes.json v1" ->
            [node |-> nodes.m[nodes.items[k]],
             id |-> [exc |-> "none", v |-> JStr(nodes.items[k])]]
      [] name = "nodes.json v2" ->
            [node |-> nodes.items[k],
             id |-> reduce_getitem(<<"nodeinfo", "node_id">>, nodes.items[k])]
      [] OTHER ->
            [node |-> nodes.items[k],
             id |-> getitem(nodes.items[k], "node_id")]

\* `node_id in seen` hashes node_id: lists and dicts are unhashable
Hashable(v) == v.t \notin {"list", "dict"}

-----------------------------------------------------------------------------
(* Payloads served to the fetcher                                          *)

N1 == <<"n", "1">>
N2 == <<"n", "2">>

FW_GLUON   == <<"g", "l", "u", "o", "n", "-", "v", "2", "0", "2", "4", ".", "1", "-", "7">>
FW_FOREIGN == <<"o", "w", "r", "t">>

Fn1(k1, v1) == k1 :> v1
Fn2(k1, v1, k2, v2) == k1 :> v1 @@ k2 :> v2
Fn3(k1, v1, k2, v2, k3, v3) == k1 :> v1 @@ k2 :> v2 @@ k3 :> v3

Firmware(base) == JDict(<<"base">>, Fn1("base", JStr(base)))

\* meshviewer nodes
MvGood(id) ==
    JDict(<<"node_id", "firmware", "model", "domain">>,
          Fn3("node_id", JStr(id), "firmware", Firmware(FW_GLUON),
              "model", JStr(<<"x", " ", "\t", "9">>))
          @@ Fn1("domain", JStr(<<"d">>)))
\* firmware without base (KeyError at depth 2), model with a non-string leaf
MvAlien(id) ==
    JDict(<<"node_id", "firmware", "model">>,
          Fn3("node_id", JStr(id), "firmware", JDict(<<>>, NoMap), "model", JNum(5)))
MvNoId == JDict(<<"firmware">>, Fn1("firmware", Firmware(FW_GLUON)))
\* firmware is a string where a mapping is expected
MvBadFw(id) ==
    JDict(<<"node_id", "firmware">>,
          Fn2("node_id", JStr(id), "firmware", JStr(FW_GLUON)))

\* nodes.json nodeinfo
NodeInfo(id, base) ==
    JDict(<<"node_id", "software", "hardware", "system">>,
          Fn3("node_id", JStr(id),
              "software", JDict(<<"firmware">>, Fn1("firmware", Firmware(base))),
              "hardware", JDict(<<"model">>, Fn1("model", JStr(<<"y">>))))
          @@ Fn1("system", JDict(<<"domain_code", "site_code">>,
                     Fn2("domain_code", JStr(<<"d">>), "site_code", JNull))))
V2Node(id, base) == JDict(<<"nodeinfo">>, Fn1("nodeinfo", NodeInfo(id, base)))
V2NoInfo == JDict(<<>>, NoMap)

TS == JStr(<<"t">>)
NoLinks == JList(<<>>)

Meshviewer(nodes) ==
    JDict(<<"timestamp", "nodes", "links">>,
          Fn3("timestamp", TS, "nodes", JList(nodes), "links", NoLinks))
MeshviewerOld(nodes) ==
    JDict(<<"meta", "nodes", "links">>,
          Fn3("meta", JDict(<<"timestamp">>, Fn1("timestamp", TS)),
              "nodes", JList(nodes), "links", NoLinks))
NodesJsonV1(ids, m) ==
    JDict(<<"timestamp", "version", "nodes">>,
          Fn3("timestamp", TS, "version", JNum(1), "nodes", JDict(ids, m)))
NodesJsonV2(nodes) ==
    JDict(<<"timestamp", "version", "nodes">>,
          Fn3("timestamp", TS, "version", JNum(2), "nodes", JList(nodes)))

Fetched(doc) == [fetch |-> "ok", doc |-> doc]
Unfetched == [fetch |-> "fails", doc |-> JNull]

\* what download + response.json() give for each URL of the catalogue
Payloads ==
    << Fetched(Meshviewer(<<MvGood(N1), MvAlien(N2)>>)),
       Fetched(JDict(<<"timestamp", "nodes">>,
                     Fn2("timestamp", TS,
                         "nodes", JList(<<MvNoId, MvGood(N1), MvGood(N1)>>)))),
       Fetched(Meshviewer(<<MvBadFw(N1), MvGood(N2)>>)),
       Fetched(MeshviewerOld(<<MvAlien(N1)>>)),
       Fetched(NodesJsonV1(<<N2>>, Fn1(N2, V2Node(N2, S_unknown)))),
       Fetched(NodesJsonV2(<<V2NoInfo, V2Node(N1, FW_FOREIGN)>>)),
       Fetched(JDict(<<>>, NoMap)),
       Fetched(JDict(<<"timestamp", "version", "nodes">>,
                     Fn3("timestamp", TS, "version", JNum(3), "nodes", JList(<<>>)))),
       Unfetched >>

Communities == {"A", "B"}

\* at most this many (community, url) pairs in communities.json
MaxSources == 2

Sources == [community : Communities, payload : 1..Len(Payloads)]

\* communities.json names its first community "A"
FirstIsA(w) == w = <<>> \/ w[1].community = "A"

\* the fetchlist comprehension lists each community's urls together
Grouped(w) ==
    \A i, j, k \in 1..Len(w) :
        (i < j /\ j < k /\ w[i].community = w[k].community)
            => w[j].community = w[i].community

Worklists ==
    {w \in UNION {[1..n -> Sources] : n \in 0..MaxSources} :
        FirstIsA(w) /\ Grouped(w)}

PayloadOf(w, i) == Payloads[w[i].payload]

-----------------------------------------------------------------------------
(* The run: main, the thread pool and named_load                           *)

\* ThreadPool(16)
PoolSize == 16

Metrics ==
    {"metric_gluon_version_total", "metric_gluon_model_total",
     "metric_gluon_domain_total", "metric_gluon_source_total",
     "metric_gluon_alien_total", "metric_gluon_alien_model_total",
     "metric_gluon_alien_domain_total", "metric_gluon_alien_source_total"}

\* create_gauges: the name under which each gauge's family is exposed
FamilyName(metric) ==
    CASE metric = "metric_gluon_version_total"      -> "gluon_base_total"
      [] metric = "metric_gluon_model_total"        -> "gluon_model_total"
      [] metric = "metric_gluon_domain_total"       -> "gluon_domain_total"
      [] metric = "metric_gluon_source_total"       -> "gluon_source_total"
      [] metric = "metric_gluon_alien_total"        -> "gluon_alien_total"
      [] metric = "metric_gluon_alien_model_total"  -> "gluon_alien_model_total"
      [] metric = "metric_gluon_alien_domain_total" -> "gluon_alien_domain_total"
      [] metric = "metric_gluon_alien_source_total" -> "gluon_alien_source_total"

\* no family is registered before a node contributes to it
create_gauges_lazy == [g \in {} |-> EmptyCounter]

\* create_gauges: eight families without samples
create_gauges == [g \in Metrics |-> EmptyCounter]

ZeroTotals ==
    [version |-> 0, model |-> 0, domain |-> 0, source |-> 0,
     alien |-> 0, alien_model |-> 0, alien_domain |-> 0, alien_source |-> 0]

\* a worker's position in named_load for one item: pc, the format whose
\* parser runs, the loop index, the node_id at hand, the value of
\* `duplicates` it has read, its ParseResult, whether it returned a result,
\* and (history) the number of its already_seen calls, of its download
\* calls and of the tuples named_load returned for it
IdleTask ==
    [pc |-> "queued", fmt |-> "", idx |-> 0, nid |-> JNull, dl |-> 0,
     res |-> ParseResult, ok |-> FALSE, calls |-> 0, fetches |-> 0,
     yields |-> 0]

InitRun(w) ==
    /\ worklist = w
    /\ nextTask = 1
    /\ task = [i \in 1..Len(w) |-> IdleTask]
    /\ seen = {}
    /\ duplicates = 0
    /\ results = <<>>
    /\ gauges = create_gauges
    /\ totals = ZeroTotals
    /\ consumed = 0
    /\ mainpc = "consume"
    /\ claims = EmptyCounter
    /\ inc_calls = create_gauges
    /\ outfile = <<>>
    /\ exit_code = <<>>
    /\ runs = 1

Init ==
    /\ cls_in = None
    /\ cls_out = NoResult
    /\ \E w \in Worklists : InitRun(w)

Running == {i \in DOMAIN task : task[i].pc \notin {"queued", "done"}}

\* the key under which a node_id is hashed into `seen`
IdKey(v) == <<v.t, v.s, v.n>>

\* named_load ends for item i, the worker's record being t: it returns
\* (community_name, result), or (community_name, None) after an exception;
\* imap_unordered yields the returned tuples in this order
Finish(i, t, ok) ==
    LET res == IF ok THEN t.res ELSE ParseResult
    IN /\ task' = [task EXCEPT ![i] = [t EXCEPT !.pc = "done", !.ok = ok, !.res = res,
                                                    !.yields = @ + 1]]
       /\ results' = Append(results, [community |-> worklist[i].community,
                                      ok |-> ok, result |-> res])

\* the parser's loop from iteration k up to the next node whose id can be
\* read (nodes without an id are skipped): [k, exc], k past the end when
\* the loop is over, exc "TypeError" when reading an id raises
RECURSIVE NextWithId(_, _, _)
NextWithId(fmt, doc, k) ==
    IF k > NodeCount(doc) THEN [k |-> k, exc |-> "none"]
    ELSE LET id == NodeAt(fmt, doc, k).id
         IN IF id.exc = "KeyError" THEN NextWithId(fmt, doc, k + 1)
            ELSE [k |-> k, exc |-> id.exc]

\* worker i, its record being t, is at the head of the parser's loop: when
\* no node with an id is left the parser and named_load return the result,
\* otherwise the worker stands before the next already_seen call
Continue(i, t) ==
    LET doc == PayloadOf(worklist, i).doc
        nx == NextWithId(t.fmt, doc, t.idx)
    IN IF nx.exc = "none" /\ nx.k > NodeCount(doc)
       THEN Finish(i, t, TRUE)
       ELSE /\ task' = [task EXCEPT ![i] = t]
            /\ UNCHANGED results

\* download raises RequestException or RuntimeError (status other than
\* 200), response.json() raises ValueError
FetchFailures == {"RequestException", "RuntimeError", "ValueError"}

\* a worker takes the next item, and after a first failed download the
\* item stays in the queue for a second attempt
LoadStart_retry(i) ==
    /\ mainpc = "consume"
    /\ i = nextTask
    /\ i <= Len(worklist)
    /\ Cardinality(Running) < PoolSize
    /\ LET p == PayloadOf(worklist, i)
           fmt == DetectFormat(p.doc)
           fetched == [task[i] EXCEPT !.fetches = @ + 1]
           t == [fetched EXCEPT !.fmt = fmt]
       IN IF p.fetch # "ok" /\ task[i].fetches = 0
          THEN /\ task' = [task EXCEPT ![i] = fetched]
               /\ UNCHANGED <<results, nextTask>>
          ELSE /\ nextTask' = i + 1
               /\ IF p.fetch # "ok"
                  THEN Finish(i, fetched, FALSE)
                  ELSE IF fmt = "" \/ ~Has(p.doc, "nodes")
                  THEN Finish(i, t, FALSE)
                  ELSE Continue(i, [t EXCEPT !.pc = "parse", !.idx = 1])
    /\ UNCHANGED <<cls_in, cls_out, worklist, seen, duplicates, gauges, totals,
                   consumed, mainpc, claims>>
    /\ UNCHANGED <<inc_calls, outfile, exit_code, runs>>

\* a worker takes the next item: download, response.json(), the schema loop
\* of load and the parser's lookup of data["nodes"]
LoadStart(i) ==
    /\ mainpc = "consume"
    /\ i = nextTask
    /\ i <= Len(worklist)
    /\ Cardinality(Running) < PoolSize
    /\ nextTask' = i + 1
    /\ LET p == PayloadOf(worklist, i)
           fmt == DetectFormat(p.doc)
           fetched == [task[i] EXCEPT !.fetches = @ + 1]
           t == [fetched EXCEPT !.fmt = fmt]
       IN IF p.fetch # "ok"
          THEN \E how \in FetchFailures : Finish(i, fetched, FALSE)
          ELSE IF fmt = "" \/ ~Has(p.doc, "nodes")
          THEN Finish(i, t, FALSE)
          ELSE Continue(i, [t EXCEPT !.pc = "parse", !.idx = 1])
    /\ UNCHANGED <<cls_in, cls_out, worklist, seen, duplicates, gauges, totals,
                   consumed, mainpc, claims>>
    /\ UNCHANGED <<inc_calls, outfile, exit_code, runs>>

\* the parser's loop up to the next node with an id, then already_seen up
\* to its first access to a global: the test `node_id in seen` and, when it
\* is true, the read of `duplicates` (an id once in `seen` stays there, so
\* the test gives the same answer at the moment of the read)
SeenTest(i) ==
    /\ mainpc = "consume"
    /\ task[i].pc = "parse"
    /\ LET t == task[i]
           doc == PayloadOf(worklist, i).doc
           nx == NextWithId(t.fmt, doc, t.idx)
       IN IF nx.exc # "none"
          THEN Finish(i, t, FALSE)
          ELSE LET id == NodeAt(t.fmt, doc, nx.k).id.v
                   called == [t EXCEPT !.idx = nx.k, !.nid = id, !.calls = @ + 1]
               IN IF ~Hashable(id)
                  THEN Finish(i, called, FALSE)
                  ELSE /\ task' = [task EXCEPT ![i] =
                              IF IdKey(id) \in seen
                              THEN [called EXCEPT !.pc = "dupstore", !.dl = duplicates]
                              ELSE [called EXCEPT !.pc = "add"]]
                       /\ UNCHANGED results
    /\ UNCHANGED <<cls_in, cls_out, worklist, nextTask, seen, duplicates, gauges,
                   totals, consumed, mainpc, claims>>
    /\ UNCHANGED <<inc_calls, outfile, exit_code, runs>>

\* already_seen: `duplicates += 1` stores the sum; already_seen returns
\* True and parse_generic returns
DupStore(i) ==
    /\ mainpc = "consume"
    /\ task[i].pc = "dupstore"
    /\ duplicates' = task[i].dl + 1
    /\ Continue(i, [task[i] EXCEPT !.pc = "parse", !.idx = @ + 1, !.dl = 0])
    /\ UNCHANGED <<cls_in, cls_out, worklist, nextTask, seen, gauges, totals,
                   consumed, mainpc, claims>>
    /\ UNCHANGED <<inc_calls, outfile, exit_code, runs>>

\* already_seen: seen.add(node_id), return False; then the rest of
\* parse_generic, which touches only the worker's own ParseResult
SeenAdd(i) ==
    /\ mainpc = "consume"
    /\ task[i].pc = "add"
    /\ seen' = seen \cup {IdKey(task[i].nid)}
    /\ claims' = Inc(claims, <<worklist[i].community, IdKey(task[i].nid)>>, 1)
    /\ LET t == task[i]
           node == NodeAt(t.fmt, PayloadOf(worklist, i).doc, t.idx).node
           r == parse_generic_count(node, KeysOf(t.fmt), t.fmt, t.res)
       IN IF r.exc # "none"
          THEN Finish(i, t, FALSE)
          ELSE Continue(i, [t EXCEPT !.pc = "parse", !.idx = @ + 1, !.res = r.result])
    /\ UNCHANGED <<cls_in, cls_out, worklist, nextTask, duplicates, gauges, totals,
                   consumed, mainpc>>
    /\ UNCHANGED <<inc_calls, outfile, exit_code, runs>>

\* the label values of one sample, from the key of a ParseResult counter
Labels(metric, community, key) ==
    CASE metric = "metric_gluon_version_total" -> <<community, key[1], key[2], key[3]>>
      [] metric = "metric_gluon_alien_total"   -> <<community, key[1], key[3]>>
      [] metric \in {"metric_gluon_domain_total", "metric_gluon_alien_domain_total"}
                                               -> <<community, key[1], key[2]>>
      [] OTHER                                 -> <<community, key>>

\* the loop with .set(amount) in the place of .inc(amount)
RECURSIVE IncAll_overwrite(_, _, _, _, _)
IncAll_overwrite(gauge, metric, community, counter, keys) ==
    IF keys = {} THEN gauge
    ELSE LET k == CHOOSE x \in keys : TRUE
             l == Labels(metric, community, k)
         IN IncAll_overwrite((l :> counter[k]) @@ gauge,
                             metric, community, counter, keys \ {k})

\* one `for ... in counter.items(): gauge.labels(...).inc(amount)` loop
RECURSIVE IncAll(_, _, _, _, _)
IncAll(gauge, metric, community, counter, keys) ==
    IF keys = {} THEN gauge
    ELSE LET k == CHOOSE x \in keys : TRUE
         IN IncAll(Inc(gauge, Labels(metric, community, k), counter[k]),
                   metric, community, counter, keys \ {k})

IncGauge(g, metric, community, counter) ==
    [g EXCEPT ![metric] = IncAll(@, metric, community, counter, DOMAIN counter)]

\* update_gauges: the gauges after the eight loops
update_gauges(community, result, g) ==
    LET g1 == IncGauge(g,  "metric_gluon_version_total", community, result.gluon.bases)
        g2 == IncGauge(g1, "metric_gluon_alien_total", community, result.alien.bases)
        g3 == IncGauge(g2, "metric_gluon_model_total", community, result.gluon.models)
        g4 == IncGauge(g3, "metric_gluon_alien_model_total", community, result.alien.models)
        g5 == IncGauge(g4, "metric_gluon_domain_total", community, result.gluon.domains)
        g6 == IncGauge(g5, "metric_gluon_alien_domain_total", community, result.alien.domains)
        g7 == IncGauge(g6, "metric_gluon_source_total", community, result.gluon.source_type)
    IN IncGauge(g7, "metric_gluon_alien_source_total", community, result.alien.source_type)

\* update_gauges: the module globals total_*_sum after the eight loops
update_totals(result, t) ==
    [version      |-> t.version + Total(result.gluon.bases),
     alien        |-> t.alien + Total(result.alien.bases),
     model        |-> t.model + Total(result.gluon.models),
     alien_model  |-> t.alien_model + Total(result.alien.models),
     domain       |-> t.domain + Total(result.gluon.domains),
     alien_domain |-> t.alien_domain + Total(result.alien.domains),
     source       |-> t.source + Total(result.gluon.source_type),
     alien_source |-> t.alien_source + Total(result.alien.source_type)]

\* a counter with the keys of `counter`, each counted once
OneEach(counter) == [k \in DOMAIN counter |-> 1]

\* the .inc() calls of update_gauges for one result: one per item of each
\* of the eight counters
IncCalls(result) ==
    [part \in {"gluon", "alien"} |->
        [d \in Dimensions |-> OneEach(result[part][d])]]

\* main: one iteration of `for community, result in results`
Consume ==
    /\ mainpc = "consume"
    /\ results # <<>>
    /\ LET r == Head(results)
       IN /\ results' = Tail(results)
          /\ consumed' = consumed + 1
          /\ IF r.ok
             THEN /\ gauges' = update_gauges(r.community, r.result, gauges)
                  /\ totals' = update_totals(r.result, totals)
                  /\ inc_calls' = update_gauges(r.community, IncCalls(r.result),
                                                inc_calls)
             ELSE UNCHANGED <<gauges, totals, inc_calls>>
    /\ UNCHANGED <<cls_in, cls_out, worklist, nextTask, task, seen, duplicates,
                   mainpc, claims, outfile, exit_code, runs>>

\* main writes as soon as one result has been consumed
WriteOut_early ==
    /\ mainpc = "consume"
    /\ consumed >= 1 \/ consumed = Len(worklist)
    /\ mainpc' = "written"
    /\ outfile' = Append(outfile, gauges)
    /\ exit_code' = <<0>>
    /\ UNCHANGED <<cls_in, cls_out, worklist, nextTask, task, seen, duplicates,
                   results, gauges, totals, consumed, claims, inc_calls, runs>>

\* main: the result loop ends; write_to_textfile (the registry's families
\* and samples, put in place by one rename), log_summary,
\* check_node_counts; main returns and the process exits with code 0
WriteOut ==
    /\ mainpc = "consume"
    /\ consumed = Len(worklist)
    /\ mainpc' = "written"
    /\ outfile' = Append(outfile, gauges)
    /\ exit_code' = <<0>>
    /\ UNCHANGED <<cls_in, cls_out, worklist, nextTask, task, seen, duplicates,
                   results, gauges, totals, consumed, claims, inc_calls, runs>>

\* check_node_counts: the mismatches it logs
check_node_counts ==
    {d \in {"version", "model", "domain", "source"} :
        CASE d = "version" -> totals.version + totals.alien # Cardinality(seen)
          [] d = "model"   -> totals.model + totals.alien_model # Cardinality(seen)
          [] d = "domain"  -> totals.domain + totals.alien_domain # Cardinality(seen)
          [] d = "source"  -> totals.source + totals.alien_source # Cardinality(seen)}

Next ==
    \/ \E i \in DOMAIN task : LoadStart(i)
    \/ \E i \in DOMAIN task : SeenTest(i)
    \/ \E i \in DOMAIN task : DupStore(i)
    \/ \E i \in DOMAIN task : SeenAdd(i)
    \/ Consume
    \/ WriteOut

Spec == Init /\ [][Next]_vars

-----------------------------------------------------------------------------
(* A run that the user may interrupt                                       *)

\* KeyboardInterrupt reaches the main thread before write_to_textfile: main
\* has no handler, the exception leaves main, the process exits with code
\* 1 and its daemon pool threads end with it
Interrupt ==
    /\ mainpc = "consume"
    /\ mainpc' = "interrupted"
    /\ exit_code' = <<1>>
    /\ UNCHANGED <<cls_in, cls_out, worklist, nextTask, task, seen, duplicates,
                   results, gauges, totals, consumed, claims, inc_calls,
                   outfile, runs>>

NextInterrupt ==
    \/ Next
    \/ Interrupt

SpecInterrupt == Init /\ [][NextInterrupt]_vars

-----------------------------------------------------------------------------
(* main invoked again in the same process (as the integration tests do     *)
(* through CliRunner.invoke): the module is not imported anew               *)

MaxRuns == 2

MaxRerunSources == 1

\* communities.json as the later invocation finds it
RerunWorklists == {w \in Worklists : Len(w) <= MaxRerunSources}

\* main up to the start of the pool: a new registry with new gauges, the
\* fetchlist of the communities.json at hand, a new ThreadPool; the module
\* globals seen, duplicates and total_*_sum are not assigned
MainAgain(w) ==
    /\ mainpc = "written"
    /\ runs < MaxRuns
    /\ runs' = runs + 1
    /\ worklist' = w
    /\ nextTask' = 1
    /\ task' = [i \in 1..Len(w) |-> IdleTask]
    /\ results' = <<>>
    /\ gauges' = create_gauges
    /\ inc_calls' = create_gauges
    /\ consumed' = 0
    /\ mainpc' = "consume"
    /\ exit_code' = <<>>
    /\ claims' = EmptyCounter
    /\ UNCHANGED <<cls_in, cls_out, seen, duplicates, totals, outfile>>

NextRerun ==
    \/ Next
    \/ \E w \in RerunWorklists : MainAgain(w)

SpecRerun == Init /\ [][NextRerun]_vars

-----------------------------------------------------------------------------
(* The run in which the pool handles one item at a time, in fetchlist      *)
(* order: named_load for item i returns before item i+1 is taken           *)

\* the parser's loop from iteration k on, then update_gauges for the result;
\* st is [seen, duplicates, gauges]
RECURSIVE SeqParse(_, _, _, _, _, _)
SeqParse(st, community, fmt, doc, k, res) ==
    IF k > NodeCount(doc)
    THEN [st EXCEPT !.gauges = update_gauges(community, res, @)]
    ELSE LET n == NodeAt(fmt, doc, k)
         IN CASE n.id.exc = "KeyError" -> SeqParse(st, community, fmt, doc, k + 1, res)
              [] n.id.exc = "TypeError" -> st
              [] OTHER ->
                   IF ~Hashable(n.id.v) THEN st
                   ELSE IF IdKey(n.id.v) \in st.seen
                   THEN SeqParse([st EXCEPT !.duplicates = @ + 1],
                                 community, fmt, doc, k + 1, res)
                   ELSE LET st2 == [st EXCEPT !.seen = @ \cup {IdKey(n.id.v)}]
                            r == parse_generic_count(n.node, KeysOf(fmt), fmt, res)
                        IN IF r.exc # "none" THEN st2
                           ELSE SeqParse(st2, community, fmt, doc, k + 1, r.result)

\* named_load for one item, then main's loop body for its result
SeqLoad(st, item) ==
    LET p == Payloads[item.payload]
        fmt == DetectFormat(p.doc)
    IN IF p.fetch # "ok" \/ fmt = "" \/ ~Has(p.doc, "nodes") THEN st
       ELSE SeqParse(st, item.community, fmt, p.doc, 1, ParseResult)

RECURSIVE SeqRun(_, _)
SeqRun(st, w) ==
    IF w = <<>> THEN st ELSE SeqRun(SeqLoad(st, Head(w)), Tail(w))

SeqStart == [seen |-> {}, duplicates |-> 0, gauges |-> create_gauges]

-----------------------------------------------------------------------------
(* The classifier on its own                                               *)

InitClassify ==
    /\ cls_in \in FirmwareInputs
    /\ cls_out = NoResult
    /\ InitRun(<<>>)

Classify ==
    /\ cls_out = NoResult
    /\ cls_out' = get_base_version(cls_in)
    /\ UNCHANGED <<cls_in, worklist, nextTask, task, seen, duplicates, results,
                   gauges, totals, consumed, mainpc, claims,
                   inc_calls, outfile, exit_code, runs>>

NextClassify == Classify

SpecClassify == InitClassify /\ [][NextClassify]_vars

-----------------------------------------------------------------------------
(* Claims about the classifier (checked under SpecClassify)                *)

Classified == cls_out # NoResult

Vtypes ==
    {"gluon-base", "gluon-unknown", "gluon-commitid", "gluon-custom",
     "undefined", "foreign"}

\* s begins with gluon-v<4 digits>.<digit>
LooksLikeRelease(s) ==
    /\ Len(s) >= 13
    /\ StartsWith(s, S_gluonv)
    /\ \A i \in 8..11 : s[i] \in Digits
    /\ s[12] = "."
    /\ s[13] \in Digits

\* s is gluon- followed only by 7 or more hex digits
LooksLikeCommit(s) ==
    /\ Len(s) >= 13
    /\ StartsWith(s, S_gluon)
    /\ \A i \in 7..Len(s) : s[i] \in HexDigits

\* C4: get_base_version never raises and yields one vtype, that of the
\* first matching rule: every string gluon-v<4 digits>.<digit>... is
\* gluon-base, the exact string gluon-unknown is gluon-unknown, gluon- plus
\* only 7 or more hex digits is gluon-commitid, absent or empty input is
\* undefined, and every other non-empty string that does not start with
\* gluon- is foreign.
C4_VtypeOfFirstMatchingRule ==
    Classified =>
        /\ ~cls_out.raised
        /\ cls_out.vtype \in Vtypes
        /\ (~cls_in.present \/ cls_in.s = <<>>) => cls_out.vtype = "undefined"
        /\ (cls_in.present /\ LooksLikeRelease(cls_in.s)) => cls_out.vtype = "gluon-base"
        /\ (cls_in.present /\ cls_in.s = S_unknown) => cls_out.vtype = "gluon-unknown"
        /\ (cls_in.present /\ LooksLikeCommit(cls_in.s)) => cls_out.vtype = "gluon-commitid"
        /\ (cls_in.present /\ cls_in.s # <<>> /\ ~StartsWith(cls_in.s, S_gluon))
              => cls_out.vtype = "foreign"

\* C5: version and base follow the matched rule: for gluon-base the matched
\* release prefix with and without the build suffix; for gluon-unknown,
\* gluon-commitid, gluon-custom and foreign the full input string, twice;
\* for absent or empty input "undefined", twice.
C5_VersionAndBaseOfRule ==
    Classified =>
        /\ cls_out.vtype = "gluon-base" =>
              /\ cls_out.version = Prefix(cls_in.s, VersionLen(cls_in.s))
              /\ cls_out.vbase = Prefix(cls_in.s, BaseLen(cls_in.s))
        /\ cls_out.vtype \in {"gluon-unknown", "gluon-commitid", "gluon-custom", "foreign"} =>
              /\ cls_out.version = cls_in.s
              /\ cls_out.vbase = cls_in.s
        /\ (~cls_in.present \/ cls_in.s = <<>>) =>
              /\ cls_out.version = S_undefined
              /\ cls_out.vbase = S_undefined

-----------------------------------------------------------------------------
(* Claims about the run (checked under Spec)                               *)

Done == mainpc = "written"

RECURSIVE SumCalls(_)
SumCalls(is) ==
    IF is = {} THEN 0
    ELSE LET i == CHOOSE x \in is : TRUE IN task[i].calls + SumCalls(is \ {i})

\* node entries with a resolvable id handed to the deduplicator so far
Submitted == SumCalls(DOMAIN task)

\* number of already_seen calls for node_id `id` that returned False
ClaimsOf(id) == SumOver(claims, {k \in DOMAIN claims : k[2] = id})

\* node_ids claimed while processing the sources of community c
ClaimedBy(c) == {k[2] : k \in {x \in DOMAIN claims : x[1] = c}}

\* sum of the samples of one gauge that carry community c
GaugeSum(metric, c) ==
    SumOver(gauges[metric], {l \in DOMAIN gauges[metric] : l[1] = c})

DimensionGauges ==
    { <<"metric_gluon_version_total", "metric_gluon_alien_total">>,
      <<"metric_gluon_model_total", "metric_gluon_alien_model_total">>,
      <<"metric_gluon_domain_total", "metric_gluon_alien_domain_total">>,
      <<"metric_gluon_source_total", "metric_gluon_alien_source_total">> }

\* C1: for every node_id at most one already_seen call returns "not seen",
\* under every interleaving of the workers.
C1_ClaimedAtMostOnce ==
    \A k \in DOMAIN claims : ClaimsOf(k[2]) <= 1

\* C2: at the end of the run, per community and dimension, the gluon and
\* alien counters sum to the number of distinct node_ids claimed for that
\* community, and check_node_counts reports no mismatch with len(seen).
C2_CountersMatchClaimedIds ==
    Done =>
        /\ \A c \in Communities : \A d \in DimensionGauges :
              GaugeSum(d[1], c) + GaugeSum(d[2], c) = Cardinality(ClaimedBy(c))
        /\ check_node_counts = {}

\* the sub-aggregate the vtype split assigns to a node
PartOf(fmt, node) ==
    IF get_base_version(get_node_item(node, KeysOf(fmt).base).val).vtype \in AlienVtypes
    THEN "alien" ELSE "gluon"

OtherPart(part) == IF part = "alien" THEN "gluon" ELSE "alien"

\* counter `new` is counter `old` with one cell incremented by one
OneCellMore(old, new) ==
    /\ DOMAIN old \subseteq DOMAIN new
    /\ \A k \in DOMAIN old : new[k] >= old[k]
    /\ Total(new) = Total(old) + 1

\* the node that worker i has at hand
NodeOf(i) == NodeAt(task[i].fmt, PayloadOf(worklist, i).doc, task[i].idx).node

\* C3: every node that survives deduplication increments exactly one cell in
\* each of the four dimensions, all in the alien sub-aggregate if its vtype
\* is undefined or foreign and all in the gluon one otherwise; the other
\* sub-aggregate is left alone.
C3_OneCellPerDimension ==
    [][\A i \in DOMAIN task :
          (task[i].pc = "add" /\ task'[i].pc # "add") =>
              LET part == PartOf(task[i].fmt, NodeOf(i))
              IN \A d \in Dimensions :
                    /\ OneCellMore(task[i].res[part][d], task'[i].res[part][d])
                    /\ task'[i].res[OtherPart(part)][d] = task[i].res[OtherPart(part)][d]
      ]_vars

\* the final result of the run: every sample of every gauge, the unique
\* count and the duplicate count
FinalResult == [gauges |-> gauges, unique |-> Cardinality(seen), duplicate |-> duplicates]

SeqResult(w) ==
    LET st == SeqRun(SeqStart, w)
    IN [gauges |-> st.gauges, unique |-> Cardinality(st.seen), duplicate |-> st.duplicates]

\* C6: for a fixed worklist and fixed payloads the final result is the same
\* for every scheduling of the workers: it is the result of the run that
\* handles the items one at a time in fetchlist order.
C6_ResultIndependentOfSchedule ==
    Done => FinalResult = SeqResult(worklist)

\* the node_ids that the payload of item j can hand to the deduplicator
PayloadIds(j) ==
    LET p == PayloadOf(worklist, j)
        fmt == DetectFormat(p.doc)
    IN IF p.fetch # "ok" \/ fmt = "" \/ ~Has(p.doc, "nodes") THEN {}
       ELSE {IdKey(NodeAt(fmt, p.doc, k).id.v) :
                k \in {x \in 1..NodeCount(p.doc) : NodeAt(fmt, p.doc, x).id.exc = "none"}}

\* C7: a source whose processing fails at any stage contributes no node to
\* any counter and leaves the SeenSet as in a run without it: at the end
\* the SeenSet holds only node_ids reported by the other sources.
C7_FailedSourceLeavesNoTrace ==
    Done =>
        \A i \in DOMAIN task :
            ~task[i].ok =>
                /\ task[i].res = ParseResult
                /\ seen \subseteq UNION {PayloadIds(j) : j \in DOMAIN task \ {i}}

\* the first of meshviewer, meshviewer (old), nodes.json v1, nodes.json v2
\* whose schema accepts the document; "" if none does
FirstAccepting(data) ==
    IF SCHEMA_MESHVIEWER(data) THEN "meshviewer"
    ELSE IF SCHEMA_MESHVIEWER_OLD(data) THEN "meshviewer (old)"
    ELSE IF SCHEMA_NODESJSONV1(data) THEN "nodes.json v1"
    ELSE IF SCHEMA_NODESJSONV2(data) THEN "nodes.json v2"
    ELSE ""

Unrecognized(i) ==
    PayloadOf(worklist, i).fetch = "ok" /\ FirstAccepting(PayloadOf(worklist, i).doc) = ""

AcceptedBySeveral(data) ==
    Cardinality({n \in 1..Len(FORMATS) : SchemaAccepts(FORMATS[n], data)}) > 1

\* C8: the parser that runs for a fetched document is that of the first
\* schema, in the order meshviewer, meshviewer (old), nodes.json v1,
\* nodes.json v2, that accepts it, and stays so when that parser fails; a
\* document that no schema accepts runs no parser: its source fails without
\* a call to the deduplicator, and a run of only such sources leaves the
\* SeenSet, the duplicate counter and all counters untouched.
C8_FirstAcceptingFormatOnly ==
    /\ \A i \in DOMAIN task :
          (task[i].pc # "queued" /\ PayloadOf(worklist, i).fetch = "ok") =>
              /\ task[i].fmt = FirstAccepting(PayloadOf(worklist, i).doc)
              /\ Unrecognized(i) =>
                    /\ task[i].pc = "done"
                    /\ ~task[i].ok
                    /\ task[i].calls = 0
                    /\ task[i].idx = 0
                    /\ task[i].res = ParseResult
    /\ (\A i \in DOMAIN task : Unrecognized(i)) =>
          /\ seen = {}
          /\ duplicates = 0
          /\ gauges = create_gauges
          /\ totals = ZeroTotals

\* C8 witness: a document that every schema accepts went to the meshviewer
\* parser, which failed, and a document that no schema accepts has failed
C8_Witness ==
    \E i, j \in DOMAIN task :
        /\ task[i].pc = "done" /\ task[j].pc = "done"
        /\ PayloadOf(worklist, i).fetch = "ok"
        /\ AcceptedBySeveral(PayloadOf(worklist, i).doc)
        /\ task[i].fmt = "meshviewer"
        /\ ~task[i].ok
        /\ Unrecognized(j)
        /\ Done

\* get_node_item as the claim has it: any failed traversal is "absent"
SafeItem(node, keys) ==
    IF ~keys.present THEN None
    ELSE LET r == reduce_getitem(keys.path, node)
         IN IF r.exc = "none" /\ r.v.t = "str" THEN Some(r.v.s) ELSE None

OrEmpty(opt) == IF opt.present THEN opt.s ELSE <<>>

\* the result after counting `node` with absent fields degraded
SafeCount(fmt, node, result) ==
    LET keys == KeysOf(fmt)
        bv == get_base_version(SafeItem(node, keys.base))
        part == IF bv.vtype \in AlienVtypes THEN "alien" ELSE "gluon"
        model == SafeItem(node, keys.model)
    IN [result EXCEPT ![part] =
           CountNode(@, bv.version, bv.vbase, bv.vtype,
                     IF model.present THEN normalize_model_name(model.s) ELSE <<>>,
                     OrEmpty(SafeItem(node, keys.site)),
                     OrEmpty(SafeItem(node, keys.domain)), fmt)]

\* C9: for a node with a resolvable id, a failed walk of the key path of
\* base, model, domain or site (missing key, wrong type at any depth,
\* non-string leaf) makes only that field absent: the node is counted once
\* in every dimension and the parser is not aborted.
C9_TraversalFailureIsFieldAbsent ==
    [][\A i \in DOMAIN task :
          (task[i].pc = "add" /\ task'[i].pc # "add") =>
              /\ task'[i].pc = "done" => task'[i].ok
              /\ task'[i].res = SafeCount(task[i].fmt, NodeOf(i), task[i].res)
      ]_vars

\* C10: at the end of the run the duplicate counter equals the number of
\* node entries with a resolvable id submitted to the deduplicator minus
\* the number of distinct ids in the SeenSet.
C10_DuplicatesAreRepeats ==
    Done => duplicates = Submitted - Cardinality(seen)

\* the value of the sample of metric m with labels l, 0 without a sample
GaugeAt(g, m, l) == IF l \in DOMAIN g[m] THEN g[m][l] ELSE 0

\* the counter of a ParseResult that feeds metric m
CounterOf(m, result) ==
    CASE m = "metric_gluon_version_total"      -> result.gluon.bases
      [] m = "metric_gluon_alien_total"        -> result.alien.bases
      [] m = "metric_gluon_model_total"        -> result.gluon.models
      [] m = "metric_gluon_alien_model_total"  -> result.alien.models
      [] m = "metric_gluon_domain_total"       -> result.gluon.domains
      [] m = "metric_gluon_alien_domain_total" -> result.alien.domains
      [] m = "metric_gluon_source_total"       -> result.gluon.source_type
      [] m = "metric_gluon_alien_source_total" -> result.alien.source_type

\* the items of the result's counter that belong to the cell (m, l)
CellKeys(m, l, r) ==
    IF r.ok
    THEN {k \in DOMAIN CounterOf(m, r.result) : Labels(m, r.community, k) = l}
    ELSE {}

\* the result main takes from imap_unordered in this step
Taken == Head(results)

C13_FetchedOnceOneResult ==
    /\ \A i \in DOMAIN task :
          /\ task[i].fetches = (IF task[i].pc = "queued" THEN 0 ELSE 1)
          /\ task[i].yields = (IF task[i].pc = "done" THEN 1 ELSE 0)
    /\ Len(results) + consumed = Cardinality({i \in DOMAIN task : task[i].pc = "done"})
    /\ Done =>
          /\ consumed = Len(worklist)
          /\ \A i \in DOMAIN task : task[i].fetches = 1 /\ task[i].yields = 1

\* C13 witness: a run has ended in which one source failed at the download
\* and another one delivered a parse result
C13_Witness ==
    /\ Done
    /\ \E i, j \in DOMAIN task :
          /\ PayloadOf(worklist, i).fetch # "ok"
          /\ ~task[i].ok
          /\ task[j].ok

Complete(fmt, data) ==
    /\ IsDict(data)
    /\ CASE fmt = "meshviewer" ->
               Has(data, "timestamp") /\ Has(data, "nodes") /\ Has(data, "links")
         [] fmt = "meshviewer (old)" ->
               /\ Has(data, "meta") /\ Has(data, "nodes") /\ Has(data, "links")
               /\ IsDict(data.m["meta"]) /\ Has(data.m["meta"], "timestamp")
         [] OTHER ->
               Has(data, "timestamp") /\ Has(data, "version") /\ Has(data, "nodes")

\* C16: a document is accepted by a format only if every top-level key of
\* that format is present with its declared type; a document that lacks
\* one of these keys for every format (the empty object, an object without
\* timestamp, links or version) is accepted by no format and its source
\* fails as unrecognized, before any parser runs.
C16_AcceptedOnlyWithAllKeys ==
    \A i \in DOMAIN task :
        (task[i].pc # "queued" /\ PayloadOf(worklist, i).fetch = "ok") =>
            LET data == PayloadOf(worklist, i).doc
            IN /\ task[i].fmt # "" =>
                     (Complete(task[i].fmt, data) /\ SchemaAccepts(task[i].fmt, data))
               /\ (\A n \in 1..Len(FORMATS) : ~Complete(FORMATS[n], data)) =>
                     /\ task[i].fmt = ""
                     /\ task[i].pc = "done"
                     /\ ~task[i].ok
                     /\ task[i].calls = 0

-----------------------------------------------------------------------------
(* Claims about interrupted runs (checked under SpecInterrupt)             *)

\* C14: the metrics output is written exactly once per completed run, only
\* after the result of every worklist item has been consumed, and holds
\* the registry as it then is; a run interrupted before that point writes
\* no output, not even a partial one.
C14_WrittenOnceAtEnd ==
    /\ Len(outfile) = (IF mainpc = "written" THEN 1 ELSE 0)
    /\ outfile # <<>> =>
          /\ consumed = Len(worklist)
          /\ results = <<>>
          /\ \A i \in DOMAIN task : task[i].pc = "done"
          /\ outfile[1] = gauges
    /\ mainpc = "interrupted" => outfile = <<>>

\* C14 witness: the run was interrupted after main had put the result of a
\* source into the registry, and nothing has been written
C14_Witness ==
    /\ mainpc = "interrupted"
    /\ gauges # create_gauges
    /\ consumed < Len(worklist)
    /\ outfile = <<>>

-----------------------------------------------------------------------------
(* Claims about repeated invocations of main (checked under SpecRerun)     *)

\* main has set up its pool and no item has been handed out yet
AtStart == mainpc = "consume" /\ nextTask = 1 /\ consumed = 0

\* C12: every execution of main, also a later one in the same process,
\* starts from an empty SeenSet, a zero duplicate counter and zero
\* dimension totals.
C12_EveryRunStartsFromScratch ==
    AtStart => (seen = {} /\ duplicates = 0 /\ totals = ZeroTotals)

====
